---- MODULE Spec2Model ----
(***************************************************************************)
(* notebooks/estimating_your_training_utilization.ipynb                    *)
(*                                                                         *)
(* The notebook builds three dense networks with create_model and, for     *)
(* each, runs one measurement cycle                                        *)
(*                                                                         *)
(*     set_interval = psutil.cpu_percent(interval=None)                    *)
(*     model.fit(x_train, y_train, epochs=2, ...)                          *)
(*     print(psutil.cpu_percent(interval=None, percpu=True),               *)
(*           psutil.cpu_percent(interval=None))                            *)
(*                                                                         *)
(* The state is the host's cumulative CPU time counters, the two baselines *)
(* psutil keeps between calls (one for the system-wide figure, one for the *)
(* per-CPU figures), the kernel's namespace (model, set_interval), the     *)
(* cell's printed output and the position in the cell being executed.      *)
(* Percentages are kept in tenths of a percent (36.2 is 362), which is the *)
(* precision cpu_percent rounds to.                                        *)
(***************************************************************************)
EXTENDS Integers, Sequences, FiniteSets, TLC

VARIABLES
    ncpu,                \* number of logical CPUs of the host
    cpu_times,           \* host counters: CPU -> [user, idle], cumulative
    last_cpu_times,      \* psutil: baseline of the system-wide figure
    last_per_cpu_times,  \* psutil: baseline of the per-CPU figures
    agg_set_by,          \* the statement that last wrote last_cpu_times
    per_set_by,          \* the statement that last wrote last_per_cpu_times
    cell,                \* the measurement cell being executed (5, 6, 7)
    pc,                  \* the statement of the cell about to execute
    cm_args,             \* create_model: its arguments n_layers, n_nodes
    cm_i,                \* create_model: iterations of the for loop done
    cm_model,            \* create_model: the local Sequential being built
    model,               \* namespace: the name model
    set_interval,        \* namespace: the name set_interval
    arg0,                \* print's first argument, evaluated, not yet printed
    out,                 \* the cell's stdout line: the printed sample
    execute_result,      \* the value the cell itself yields (its Out[n])
    error,               \* the exception that ended the cell, or "None"
    work,                \* how model.fit ended in this cell, and its value
    window,              \* "Idle" or "WindowOpen": reset executed, read not yet
    begin_at,            \* host time of this cell's reset (line 210/275/344), or -1
    prev_agg,            \* the system-wide call before the latest one: its end
    last_agg,            \* the latest system-wide call: the interval it covered
    cancelled            \* model.fit raised in the cell run before this one

vars == <<ncpu, cpu_times, last_cpu_times, last_per_cpu_times, agg_set_by,
          per_set_by, cell, pc, cm_args, cm_i, cm_model, model, set_interval,
          arg0, out, execute_result, error, work, window, begin_at, prev_agg,
          last_agg, cancelled>>

(***************************************************************************)
(* Bounds of the model.                                                    *)
(***************************************************************************)
MaxCpus == 2
MaxTicks == 2
MaxLayers == 4

(***************************************************************************)
(* Program constants.                                                      *)
(***************************************************************************)
OutputUnits == 10
Epochs == 2
InputSide == 28

NodeChoices == {1, 128, 1024, 2048}
HistoryValues == {"history_a", "history_b"}
WorkErrors == {"KeyboardInterrupt", "ResourceExhaustedError"}

\* The arguments of the three create_model calls.
CellArgs(c) ==
    CASE c = 5 -> [n_layers |-> 1, n_nodes |-> 128]
      [] c = 6 -> [n_layers |-> 2, n_nodes |-> 1024]
      [] OTHER -> [n_layers |-> 4, n_nodes |-> 2048]

LastCell == 7

(***************************************************************************)
(* psutil's arithmetic.                                                    *)
(***************************************************************************)
RECURSIVE SumSeq(_)
SumSeq(s) == IF s = <<>> THEN 0 ELSE Head(s) + SumSeq(Tail(s))

Max0(x) == IF x < 0 THEN 0 ELSE x

\* cpu_times(percpu=True): one snapshot per CPU.
per_cpu_times(ct, n) == [c \in 1..n |-> ct[c]]

\* cpu_times(): the per-field sum over the CPUs.
sum_cpu_times(ct, n) ==
    [user |-> SumSeq([c \in 1..n |-> ct[c].user]),
     idle |-> SumSeq([c \in 1..n |-> ct[c].idle])]

cpu_tot_time(t) == t.user + t.idle

cpu_busy_time(t) == cpu_tot_time(t) - t.idle

cpu_times_deltas(t1, t2) ==
    [user |-> Max0(t2.user - t1.user), idle |-> Max0(t2.idle - t1.idle)]

\* round(busy / all * 100, 1) in tenths of a percent, ties to even.
Round1(busy, all) ==
    LET q == (busy * 1000) \div all
        r == (busy * 1000) % all
    IN  IF 2 * r < all THEN q
        ELSE IF 2 * r > all THEN q + 1
        ELSE IF q % 2 = 0 THEN q ELSE q + 1

\* A plausible slip: the busy time is taken from the second snapshot alone.
calculate_no_delta(t1, t2) ==
    LET all_delta == cpu_tot_time(cpu_times_deltas(t1, t2))
    IN  IF all_delta = 0 THEN 0 ELSE Round1(cpu_busy_time(t2), all_delta)

\* calculate(t1, t2) of cpu_percent: 0.0 on ZeroDivisionError.
calculate(t1, t2) ==
    LET times_delta == cpu_times_deltas(t1, t2)
        all_delta == cpu_tot_time(times_delta)
        busy_delta == cpu_busy_time(times_delta)
    IN  IF all_delta = 0 THEN 0 ELSE Round1(busy_delta, all_delta)

\* Host time: every CPU's counters advance together, one unit per tick.
Now == cpu_tot_time(cpu_times[1])

\* A plausible slip: the call forgets to move its baseline.
StaleLastCpuTimes == last_cpu_times

\* _last_cpu_times = cpu_times(), the system-wide branch of cpu_percent.
NewLastCpuTimes == sum_cpu_times(cpu_times, ncpu)

\* A plausible slip: the system-wide branch also moves the per-CPU baseline.
AggCallMovesPerCpuToo == TRUE

\* Whether cpu_percent(percpu=False) writes _last_per_cpu_times: it does
\* not, each branch of cpu_percent keeps its own baseline.
AggCallMovesPerCpu == FALSE

PerBaselineAfterAgg ==
    IF AggCallMovesPerCpu THEN per_cpu_times(cpu_times, ncpu) ELSE last_per_cpu_times

PerSetByAfterAgg(stmt) == IF AggCallMovesPerCpu THEN stmt ELSE per_set_by

\* The value of one system-wide call: what it returns and the interval of
\* host time it covers.
AggCall ==
    LET t2 == sum_cpu_times(cpu_times, ncpu)
    IN  [value |-> calculate(last_cpu_times, t2),
         from |-> cpu_tot_time(last_cpu_times) \div ncpu,
         to |-> cpu_tot_time(t2) \div ncpu,
         opened_by |-> agg_set_by]

\* The interval of a system-wide call and the statement that made it.
Interval(call, stmt) ==
    [from |-> call.from, to |-> call.to, opened_by |-> call.opened_by, stmt |-> stmt]

PerCall ==
    LET t2 == per_cpu_times(cpu_times, ncpu)
    IN  [values |-> [c \in 1..ncpu |-> calculate(last_per_cpu_times[c], t2[c])],
         from |-> cpu_tot_time(last_per_cpu_times[1]),
         to |-> cpu_tot_time(t2[1]),
         opened_by |-> per_set_by]

NoAgg == [value |-> 0, from |-> 0, to |-> 0, opened_by |-> "none"]
NoPer == [values |-> <<>>, from |-> 0, to |-> 0, opened_by |-> "none"]
NoOut == [printed |-> FALSE, per |-> NoPer, agg |-> NoAgg]
NoModel == [defined |-> FALSE, layers |-> <<>>, compiled |-> FALSE, epochs |-> 0]
NoWork == [outcome |-> "none", value |-> "None", entered |-> 0]
\* import psutil reads the counters once for each baseline.
ImportAgg == [from |-> 0, to |-> 0, opened_by |-> "none", stmt |-> "import"]

(***************************************************************************)
(* The statements of a measurement cell, in order.                         *)
(***************************************************************************)
\* A plausible slip: the checkpoint is set after the training has started.
CellProgramFitFirst ==
    <<"create_model", "summary", "fit", "begin_window", "percpu", "aggregate", "end">>

\* A plausible slip: the sample is printed before the training is run.
CellProgramSampleFirst ==
    <<"create_model", "summary", "begin_window", "percpu", "aggregate", "fit", "end">>

CellProgram ==
    <<"create_model", "summary", "begin_window", "fit", "percpu", "aggregate", "end">>

NextStmt(s) ==
    LET i == CHOOSE k \in 1..Len(CellProgram) : CellProgram[k] = s
    IN  CellProgram[i + 1]

\* A plausible slip: the sample is taken in a finally clause.
OnWorkErrorFinally == "percpu"

\* Where the cell continues when model.fit raises: nowhere, the cell ends.
OnWorkError == "end"

(***************************************************************************)
(* create_model                                                            *)
(***************************************************************************)
Flatten(side) == [type |-> "Flatten", shape |-> <<side, side>>, activation |-> "none"]
Dense(n, act) == [type |-> "Dense", shape |-> <<n>>, activation |-> act]

\* A plausible slip: range(n_layers + 1).
LoopContinuesOffByOne(i, n_layers) == i <= n_layers

\* for _ in range(n_layers)
LoopContinues(i, n_layers) == i < n_layers

add_Flatten(m) == Append(m, Flatten(InputSide))
add_Dense(m, n_nodes) == Append(m, Dense(n_nodes, "relu"))
add_Output(m) == Append(m, Dense(OutputUnits, "softmax"))

\* The for loop, from iteration i on.
RECURSIVE cm_for(_, _, _, _)
cm_for(m, i, n_layers, n_nodes) ==
    IF LoopContinues(i, n_layers)
    THEN cm_for(add_Dense(m, n_nodes), i + 1, n_layers, n_nodes)
    ELSE m

\* create_model run to its return: the layers of the model it returns.
create_model(n_layers, n_nodes) ==
    add_Output(cm_for(add_Flatten(<<>>), 0, n_layers, n_nodes))

cm_vars == <<cm_args, cm_i, cm_model, model, pc>>
host_vars == <<ncpu, cpu_times>>
psutil_vars == <<last_cpu_times, last_per_cpu_times, agg_set_by, per_set_by>>
cycle_vars == <<set_interval, arg0, out, execute_result, error, work, window,
                begin_at, prev_agg, last_agg, cancelled>>

cm_Sequential ==
    /\ pc = "cm_Sequential"
    /\ cm_model' = <<>>
    /\ pc' = "cm_Flatten"
    /\ UNCHANGED <<cm_args, cm_i, model, cell, host_vars, psutil_vars, cycle_vars>>

cm_Flatten ==
    /\ pc = "cm_Flatten"
    /\ cm_model' = add_Flatten(cm_model)
    /\ cm_i' = 0
    /\ pc' = "cm_for"
    /\ UNCHANGED <<cm_args, model, cell, host_vars, psutil_vars, cycle_vars>>

cm_ForDense ==
    /\ pc = "cm_for"
    /\ LoopContinues(cm_i, cm_args.n_layers)
    /\ cm_model' = add_Dense(cm_model, cm_args.n_nodes)
    /\ cm_i' = cm_i + 1
    /\ UNCHANGED <<pc, cm_args, model, cell, host_vars, psutil_vars, cycle_vars>>

cm_ForExit ==
    /\ pc = "cm_for"
    /\ ~LoopContinues(cm_i, cm_args.n_layers)
    /\ pc' = "cm_Dense10"
    /\ UNCHANGED <<cm_args, cm_i, cm_model, model, cell, host_vars, psutil_vars, cycle_vars>>

cm_Dense10 ==
    /\ pc = "cm_Dense10"
    /\ cm_model' = add_Output(cm_model)
    /\ pc' = "cm_compile"
    /\ UNCHANGED <<cm_args, cm_i, model, cell, host_vars, psutil_vars, cycle_vars>>

cm_compile ==
    /\ pc = "cm_compile"
    /\ pc' = "cm_return"
    /\ UNCHANGED <<cm_args, cm_i, cm_model, model, cell, host_vars, psutil_vars, cycle_vars>>

\* return model
cm_return ==
    /\ pc = "cm_return"
    /\ model' = [defined |-> TRUE, layers |-> cm_model, compiled |-> TRUE, epochs |-> 0]
    /\ pc' = "cm_done"
    /\ UNCHANGED <<cm_args, cm_i, cm_model, cell, host_vars, psutil_vars, cycle_vars>>

(***************************************************************************)
(* The host: CPU time passes, each CPU busy or idle for one unit.          *)
(***************************************************************************)
Tick ==
    /\ Now < MaxTicks
    /\ pc # "done"
    /\ \E busy \in SUBSET (1..ncpu) :
         cpu_times' = [c \in 1..ncpu |->
                         IF c \in busy
                         THEN [cpu_times[c] EXCEPT !.user = @ + 1]
                         ELSE [cpu_times[c] EXCEPT !.idle = @ + 1]]
    /\ UNCHANGED <<ncpu, cell, cm_vars, psutil_vars, cycle_vars>>

(***************************************************************************)
(* A measurement cell.                                                     *)
(***************************************************************************)
\* model = create_model(n_layers, n_nodes). A new cell starts with no
\* output and no exception.
CallCreateModel ==
    /\ pc = "create_model"
    /\ cm_args' = CellArgs(cell)
    /\ model' = [defined |-> TRUE,
                 layers |-> create_model(CellArgs(cell).n_layers, CellArgs(cell).n_nodes),
                 compiled |-> TRUE, epochs |-> 0]
    /\ pc' = NextStmt("create_model")
    /\ out' = NoOut
    /\ arg0' = NoPer
    /\ execute_result' = "None"
    /\ error' = "None"
    /\ work' = NoWork
    /\ begin_at' = -1
    /\ UNCHANGED <<cm_i, cm_model, cell, host_vars, psutil_vars,
                   set_interval, window, prev_agg, last_agg, cancelled>>

\* model.summary()
Summary ==
    /\ pc = "summary"
    /\ pc' = NextStmt("summary")
    /\ UNCHANGED <<cm_args, cm_i, cm_model, model, cell, host_vars, psutil_vars, cycle_vars>>

\* set_interval = psutil.cpu_percent(interval=None)
BeginWindow ==
    /\ pc = "begin_window"
    /\ set_interval' = AggCall.value
    /\ prev_agg' = last_agg
    /\ last_agg' = Interval(AggCall, "begin_window")
    /\ last_cpu_times' = NewLastCpuTimes
    /\ agg_set_by' = "begin_window"
    /\ last_per_cpu_times' = PerBaselineAfterAgg
    /\ per_set_by' = PerSetByAfterAgg("begin_window")
    /\ window' = "WindowOpen"
    /\ begin_at' = Now
    /\ pc' = NextStmt("begin_window")
    /\ UNCHANGED <<cm_args, cm_i, cm_model, model, cell, host_vars,
                   arg0, out, execute_result, error, work, cancelled>>

\* Any of the three psutil calls fails reading the host's counters: the
\* exception ends the cell and the baselines stay as they were.
CpuPercentRaises ==
    /\ pc \in {"begin_window", "percpu", "aggregate"}
    /\ error' = "OSError"
    /\ pc' = "end"
    /\ UNCHANGED <<cm_args, cm_i, cm_model, model, cell, host_vars, psutil_vars,
                   set_interval, arg0, out, execute_result, work, window,
                   begin_at, prev_agg, last_agg, cancelled>>

\* model.fit(x_train, y_train, epochs=2, ...): the call starts.
FitEnter ==
    /\ pc = "fit"
    /\ model.defined
    /\ pc' = "fitting"
    /\ work' = [work EXCEPT !.entered = Now]
    /\ UNCHANGED <<cm_args, cm_i, cm_model, model, cell, host_vars, psutil_vars,
                   set_interval, arg0, out, execute_result, error, window,
                   begin_at, prev_agg, last_agg, cancelled>>

\* model.fit returns its History; the statement does not bind it.
FitReturn ==
    /\ pc = "fitting"
    /\ \E h \in HistoryValues :
         work' = [work EXCEPT !.outcome = "returned", !.value = h]
    /\ model' = [model EXCEPT !.epochs = @ + Epochs]
    /\ pc' = NextStmt("fit")
    /\ UNCHANGED <<cm_args, cm_i, cm_model, cell, host_vars, psutil_vars,
                   set_interval, arg0, out, execute_result, error, window,
                   begin_at, prev_agg, last_agg, cancelled>>

\* model.fit raises (an error of the training, or the kernel is interrupted).
FitRaise ==
    /\ pc = "fitting"
    /\ \E e \in WorkErrors :
         /\ work' = [work EXCEPT !.outcome = "raised", !.value = e]
         /\ error' = e
    /\ pc' = OnWorkError
    /\ UNCHANGED <<cm_args, cm_i, cm_model, model, cell, host_vars, psutil_vars,
                   set_interval, arg0, out, execute_result, window, begin_at,
                   prev_agg, last_agg, cancelled>>

\* psutil.cpu_percent(interval=None, percpu=True), print's first argument
SamplePerCpu ==
    /\ pc = "percpu"
    /\ arg0' = PerCall
    /\ last_per_cpu_times' = per_cpu_times(cpu_times, ncpu)
    /\ per_set_by' = "sample"
    /\ pc' = NextStmt("percpu")
    /\ UNCHANGED <<cm_args, cm_i, cm_model, model, cell, host_vars,
                   last_cpu_times, agg_set_by, set_interval, out,
                   execute_result, error, work, window, begin_at, prev_agg,
                   last_agg, cancelled>>

\* psutil.cpu_percent(interval=None), print's second argument, and the print
SampleAggregate ==
    /\ pc = "aggregate"
    /\ out' = [printed |-> TRUE, per |-> arg0, agg |-> AggCall]
    /\ prev_agg' = last_agg
    /\ last_agg' = Interval(AggCall, "sample")
    /\ last_cpu_times' = NewLastCpuTimes
    /\ agg_set_by' = "sample"
    /\ last_per_cpu_times' = PerBaselineAfterAgg
    /\ per_set_by' = PerSetByAfterAgg("sample")
    /\ window' = "Idle"
    /\ execute_result' = "None"
    /\ pc' = NextStmt("aggregate")
    /\ UNCHANGED <<cm_args, cm_i, cm_model, model, cell, host_vars,
                   set_interval, arg0, error, work, begin_at, cancelled>>

\* The cell is over; the next one is run, or the notebook is finished.
NextCell ==
    /\ pc = "end"
    /\ IF cell < LastCell
       THEN cell' = cell + 1 /\ pc' = "create_model"
       ELSE cell' = cell /\ pc' = "done"
    /\ cancelled' = (work.outcome = "raised")
    /\ UNCHANGED <<cm_args, cm_i, cm_model, model, host_vars, psutil_vars,
                   set_interval, arg0, out, execute_result, error, work, window,
                   begin_at, prev_agg, last_agg>>

(***************************************************************************)
(* The notebook, from the state left by its first four cells: psutil is    *)
(* imported (its two baselines hold the counters read at import) and       *)
(* create_model is defined.                                                *)
(***************************************************************************)
Init ==
    /\ ncpu \in 1..MaxCpus
    /\ cpu_times = [c \in 1..ncpu |-> [user |-> 0, idle |-> 0]]
    /\ last_cpu_times = [user |-> 0, idle |-> 0]
    /\ last_per_cpu_times = [c \in 1..ncpu |-> [user |-> 0, idle |-> 0]]
    /\ agg_set_by = "import"
    /\ per_set_by = "import"
    /\ cell = 5
    /\ pc = "create_model"
    /\ cm_args = CellArgs(5)
    /\ cm_i = 0
    /\ cm_model = <<>>
    /\ model = NoModel
    /\ set_interval = 0
    /\ arg0 = NoPer
    /\ out = NoOut
    /\ execute_result = "None"
    /\ error = "None"
    /\ work = NoWork
    /\ window = "Idle"
    /\ begin_at = -1
    /\ prev_agg = ImportAgg
    /\ last_agg = ImportAgg
    /\ cancelled = FALSE

CreateModelStep ==
    \/ cm_Sequential
    \/ cm_Flatten
    \/ cm_ForDense
    \/ cm_ForExit
    \/ cm_Dense10
    \/ cm_compile
    \/ cm_return

Next ==
    \/ Tick
    \/ CallCreateModel
    \/ Summary
    \/ BeginWindow
    \/ CpuPercentRaises
    \/ FitEnter
    \/ FitReturn
    \/ FitRaise
    \/ SamplePerCpu
    \/ SampleAggregate
    \/ NextCell

Spec == Init /\ [][Next]_vars

(***************************************************************************)
(* create_model alone, on arbitrary arguments.                             *)
(***************************************************************************)
InitCreateModel ==
    /\ ncpu = 1
    /\ cpu_times = [c \in 1..ncpu |-> [user |-> 0, idle |-> 0]]
    /\ last_cpu_times = [user |-> 0, idle |-> 0]
    /\ last_per_cpu_times = [c \in 1..ncpu |-> [user |-> 0, idle |-> 0]]
    /\ agg_set_by = "import"
    /\ per_set_by = "import"
    /\ cell = 0
    /\ pc = "cm_Sequential"
    /\ cm_args \in [n_layers : 0..MaxLayers, n_nodes : NodeChoices]
    /\ cm_i = 0
    /\ cm_model = <<>>
    /\ model = NoModel
    /\ set_interval = 0
    /\ arg0 = NoPer
    /\ out = NoOut
    /\ execute_result = "None"
    /\ error = "None"
    /\ work = NoWork
    /\ window = "Idle"
    /\ begin_at = -1
    /\ prev_agg = ImportAgg
    /\ last_agg = ImportAgg
    /\ cancelled = FALSE

SpecCreateModel == InitCreateModel /\ [][CreateModelStep]_vars

FairSpecCreateModel == SpecCreateModel /\ WF_vars(CreateModelStep)

(***************************************************************************)
(* Properties.                                                             *)
(***************************************************************************)
SampleValues == {out.per.values[c] : c \in DOMAIN out.per.values} \cup {out.agg.value}

CycleDoneNormally == pc = "end" /\ work.outcome = "returned" /\ error = "None"

\* C1: both parts of a cycle's sample, the per-CPU values and the system-wide
\* value, cover the interval that starts at that cycle's own begin_window
\* (line 210/275/344): nothing from before it, so nothing of an earlier
\* cycle or of the model construction between cycles, is included.
C1_SampleCoversOwnWindow ==
    out.printed => out.agg.from = begin_at /\ out.per.from = begin_at

\* C2: in every printed sample the system-wide value is the arithmetic mean
\* of the per-CPU values, one value per CPU (values are tenths of a percent,
\* so a tolerance of 1e-6 is equality).
C2_AggregateIsMean ==
    out.printed =>
        /\ Len(out.per.values) = ncpu
        /\ ncpu * out.agg.value = SumSeq(out.per.values)

C4_WindowBracketsWork ==
    /\ window = "Idle"
    /\ [](window \in {"Idle", "WindowOpen"})
    /\ [](pc = "fitting" =>
             window = "WindowOpen" /\ begin_at >= 0 /\ begin_at <= work.entered)
    /\ [](pc \in {"percpu", "aggregate"} =>
             window = "WindowOpen" /\ work.outcome = "returned")
    /\ [][window' # window =>
             \/ window = "Idle" /\ pc = "begin_window" /\ pc' = "fit"
             \/ window = "WindowOpen" /\ pc = "aggregate" /\ out'.printed]_vars

\* C4 witness: the second cycle's training is running, host time has passed
\* since its begin_window.
C4_WorkRunningInOpenWindow ==
    cell = 6 /\ pc = "fitting" /\ window = "WindowOpen" /\ Now > begin_at

\* C5: when model.fit raises, the exception that ends the cell is that very
\* exception and no sample is printed; an exception of a psutil call ends the
\* cell only when model.fit did not raise, and then what model.fit did (the
\* epochs it trained) stays.
C5_ErrorsNotMasked ==
    /\ work.outcome = "raised" => error = work.value /\ ~out.printed
    /\ error \in WorkErrors => work.outcome = "raised"
    /\ error = "OSError" =>
           /\ work.outcome # "raised"
           /\ work.outcome = "returned" => model.epochs = Epochs

\* C5 witness: a cell ended by model.fit raising.
C5_CellEndedByWorkError ==
    pc = "end" /\ work.outcome = "raised" /\ error \in WorkErrors

\* C6: when model.fit returns, the cycle hands the caller the value model.fit
\* returned together with the sample.
C6_ReturnsWorkResult ==
    CycleDoneNormally => execute_result = work.value /\ out.printed

\* C6, amended: when model.fit returns, the cycle has run begin_window, then
\* model.fit, then the sample; it prints the sample, whose system-wide value
\* covers the whole run of model.fit, and leaves the model as model.fit left
\* it; the value model.fit returned is discarded: the cell yields None.
C6_PrintsSampleDropsResult ==
    CycleDoneNormally =>
        /\ out.printed
        /\ out.agg.from = begin_at
        /\ begin_at <= work.entered
        /\ work.entered <= out.agg.to
        /\ model.epochs = Epochs
        /\ Len(model.layers) = CellArgs(cell).n_layers + 2
        /\ execute_result = "None"
        /\ execute_result # work.value

\* C6 witness: a cycle ended normally, with host time spent in model.fit.
C6_CycleEndedNormally ==
    CycleDoneNormally /\ out.printed /\ out.agg.to > out.agg.from

\* C7: every value of a printed sample, per CPU and system-wide, lies in
\* [0, 100] (0..1000 tenths), whatever the busy and elapsed time; when no
\* time has elapsed since the baseline the value is 0.0 and nothing is raised.
C7_PercentagesInRange ==
    /\ out.printed =>
           /\ \A v \in SampleValues : v \in 0..1000
           /\ out.agg.from = out.agg.to => out.agg.value = 0
           /\ out.per.from = out.per.to =>
                  \A c \in DOMAIN out.per.values : out.per.values[c] = 0
    /\ set_interval \in 0..1000
    /\ error # "ZeroDivisionError"

\* C7 witness: a sample printed with no host time between begin_window and
\* the system-wide read.
C7_ZeroElapsedSample ==
    out.printed /\ out.agg.from = out.agg.to /\ error = "None"

\* C8: when model.fit is cancelled the window stays open, the baseline still
\* that of the cancelled cycle's begin_window; a new begin_window discards
\* what has accumulated, so the sample of the cycle run after a cancelled one
\* holds nothing from before its own begin_window.
C8_NewWindowDiscardsCancelled ==
    /\ (pc = "end" /\ work.outcome = "raised") =>
           /\ window = "WindowOpen"
           /\ agg_set_by = "begin_window"
           /\ cpu_tot_time(last_cpu_times) \div ncpu = begin_at
    /\ (out.printed /\ cancelled) =>
           out.agg.from >= begin_at /\ out.per.from >= begin_at

\* C9: create_model returns Flatten(28, 28), then n_layers Dense(n_nodes),
\* then Dense(10): n_layers + 2 layers; and it returns.
C9_CreateModelLayers ==
    /\ [](pc = "cm_done" =>
             /\ model.defined
             /\ Len(model.layers) = cm_args.n_layers + 2
             /\ model.layers[1] =
                    [type |-> "Flatten", shape |-> <<28, 28>>, activation |-> "none"]
             /\ \A k \in 2..(cm_args.n_layers + 1) :
                    model.layers[k] =
                        [type |-> "Dense", shape |-> <<cm_args.n_nodes>>,
                         activation |-> "relu"]
             /\ model.layers[cm_args.n_layers + 2] =
                    [type |-> "Dense", shape |-> <<10>>, activation |-> "softmax"])
    /\ <>(pc = "cm_done")

\* C9 witness: create_model(0, n_nodes) has returned a model of two layers.
C9_NoHiddenLayer ==
    pc = "cm_done" /\ cm_args.n_layers = 0 /\ Len(model.layers) = 2

\* C10: every system-wide read moves the system-wide baseline to the time of
\* the read, so each read covers exactly the interval since the read before
\* it (two reads in a row cover disjoint intervals), and the value bound to
\* set_interval is that of the interval since the previous sample's read.
C10_AggregateReadsChain ==
    /\ cpu_tot_time(last_cpu_times) \div ncpu = last_agg.to
    /\ last_agg.from <= last_agg.to
    /\ last_agg.stmt # "import" => last_agg.from = prev_agg.to

\* C10 witness: the second cell's set_interval holds a non-zero utilization,
\* that of the interval between the first cell's sample and this reset.
C10_SetIntervalCoversGap ==
    /\ last_agg.stmt = "begin_window"
    /\ prev_agg.stmt = "sample"
    /\ last_agg.to > last_agg.from
    /\ set_interval > 0
====
